---- MODULE Spec2Model ----
(***************************************************************************)
(* Model of the Formik form-state controller (src/src/Formik.tsx):         *)
(* whole-form validation runs behind a cancelable handle, single-field     *)
(* validation, the submit / reset state machine and the error-tree merge.  *)
(***************************************************************************)
EXTENDS Integers, Sequences, FiniteSets, TLC

(***************************************************************************)
(* Bounds of the model.                                                    *)
(***************************************************************************)
MaxInFlight == 2      \* promises in flight at once: validation runs, validateField, onReset
MaxSubmits == 2       \* submitForm calls counted by submitCount / seen by onSubmit

(***************************************************************************)
(* Value / error / touched trees.  A tree node is a record [t, v]:         *)
(*   t = "s"  string leaf, v the string        t = "b"  boolean leaf       *)
(*   t = "u"  undefined (also an array hole)   t = "e"  thrown Error object*)
(*   t = "o"  plain object, v a function from key strings to nodes         *)
(*   t = "a"  array, v a sequence of nodes (JS index i is v[i+1])          *)
(* A path is a sequence of string segments, as lodash toPath returns it.   *)
(***************************************************************************)
Str(s) == [t |-> "s", v |-> s]
Bool(b) == [t |-> "b", v |-> b]
Undef == [t |-> "u", v |-> ""]
ErrObj(m) == [t |-> "e", v |-> m]
Obj(f) == [t |-> "o", v |-> f]
Arr(s) == [t |-> "a", v |-> s]
EmptyObj == Obj(<<>>)
Obj1(k, x) == Obj([kk \in {k} |-> x])

IsObj(x) == x.t = "o"
IsArr(x) == x.t = "a"
IsUndef(x) == x.t = "u"

\* JS truthiness of a node: undefined and the empty string are falsy.
Truthy(x) ==
  CASE x.t = "u" -> FALSE
    [] x.t = "s" -> x.v # ""
    [] x.t = "b" -> x.v
    [] OTHER -> TRUE

\* Object.keys(x) of an object; an Error object has no own enumerable key.
Keys(x) ==
  CASE x.t = "o" -> DOMAIN x.v
    [] x.t = "e" -> {}

\* Array index segments as toPath yields them.
IndexSegs == {"0", "1", "2"}
isInteger(seg) == seg \in IndexSegs
ToIndex(seg) == CASE seg = "0" -> 1 [] seg = "1" -> 2 [] seg = "2" -> 3

\* x[seg] for one path segment; undefined when absent.
Prop(x, seg) ==
  CASE IsObj(x) /\ seg \in DOMAIN x.v -> x.v[seg]
    [] IsArr(x) /\ isInteger(seg) /\ ToIndex(seg) \in DOMAIN x.v -> x.v[ToIndex(seg)]
    [] OTHER -> Undef

RECURSIVE getIn(_, _)
getIn(obj, path) ==
  IF path = <<>> THEN obj
  ELSE IF IsUndef(obj) THEN Undef
  ELSE getIn(Prop(obj, Head(path)), Tail(path))

\* arr[i] = x on a JS array: holes are created up to i when i is past the end.
ArrPut(s, i, x) ==
  [j \in 1..(IF i > Len(s) THEN i ELSE Len(s)) |->
     IF j = i THEN x ELSE IF j <= Len(s) THEN s[j] ELSE Undef]

\* container[seg] = x on a shallow copy of the container; an undefined x leaves
\* no entry behind (an absent path is never materialized).
PutProp(c, seg, x) ==
  IF IsArr(c) THEN
    IF IsUndef(x) /\ ToIndex(seg) > Len(c.v) THEN c
    ELSE Arr(ArrPut(c.v, ToIndex(seg), x))
  ELSE IF IsUndef(x) THEN Obj([k \in (DOMAIN c.v) \ {seg} |-> c.v[k]])
  ELSE Obj([k \in (DOMAIN c.v) \cup {seg} |-> IF k = seg THEN x ELSE c.v[k]])

RECURSIVE setIn(_, _, _)
setIn(obj, path, value) ==
  IF Len(path) = 1 THEN PutProp(obj, path[1], value)
  ELSE
    LET cur == Prop(obj, path[1])
        child == IF IsObj(cur) \/ IsArr(cur) THEN cur
                 ELSE IF isInteger(path[2]) THEN Arr(<<>>) ELSE EmptyObj
    IN PutProp(obj, path[1], setIn(child, Tail(path), value))

RECURSIVE setNestedObjectValues(_, _)
setNestedObjectValues(x, b) ==
  CASE IsObj(x) -> Obj([k \in DOMAIN x.v |-> setNestedObjectValues(x.v[k], b)])
    [] IsArr(x) -> Arr([i \in DOMAIN x.v |-> setNestedObjectValues(x.v[i], b)])
    [] OTHER -> Bool(b)

\* react-fast-compare: structural equality.
isEqual(x, y) == x = y

(***************************************************************************)
(* deepmerge with the arrayMerge option of Formik.tsx.                     *)
(***************************************************************************)
isMergeableObject(x) == IsObj(x) \/ IsArr(x)

RECURSIVE deepmerge(_, _)
RECURSIVE ArrayMergeFrom(_, _, _, _)

\* source.forEach body of arrayMerge, from source index i on; dest is the
\* destination built so far.  forEach skips holes of the source.
ArrayMergeFrom(target, source, dest, i) ==
  IF i > Len(source) THEN dest
  ELSE
    LET e == source[i]
        d == IF i <= Len(dest) THEN dest[i] ELSE Undef
        t == IF i <= Len(target) THEN target[i] ELSE Undef
        next ==
          IF IsUndef(e) THEN dest
          ELSE IF IsUndef(d) THEN ArrPut(dest, i, e)
          ELSE IF isMergeableObject(e) THEN ArrPut(dest, i, deepmerge(t, e))
          ELSE IF \A j \in DOMAIN target : target[j] # e THEN Append(dest, e)
          ELSE dest
    IN ArrayMergeFrom(target, source, next, i + 1)

arrayMerge(target, source) == ArrayMergeFrom(target, source, target, 1)

\* mergeObject of deepmerge: keys of a non-mergeable target are not copied.
mergeObject(target, source) ==
  LET tk == IF IsObj(target) THEN DOMAIN target.v ELSE {}
      sk == IF IsObj(source) THEN DOMAIN source.v ELSE {}
  IN Obj([k \in tk \cup sk |->
        IF k \notin sk THEN target.v[k]
        ELSE IF ~isMergeableObject(source.v[k]) \/ k \notin tk
             THEN source.v[k]
             ELSE IF ~Truthy(target.v[k]) THEN source.v[k]
             ELSE deepmerge(target.v[k], source.v[k])])

deepmerge(target, source) ==
  IF IsArr(source) # IsArr(target) THEN source
  ELSE IF IsArr(source) THEN Arr(arrayMerge(target.v, source.v))
  ELSE mergeObject(target, source)

\* deepmerge.all([a, b, c], { arrayMerge })
deepmergeAll3(a, b, c) == deepmerge(deepmerge(deepmerge(EmptyObj, a), b), c)

(***************************************************************************)
(* Configuration (props) and the inputs the environment can supply.        *)
(***************************************************************************)
validateOnChange == TRUE
validateOnBlur == TRUE

PathA == <<"a">>
V0 == Obj1("a", Str(""))
V1 == Obj1("a", Str("x"))
PropsInitialValues == V0
ValueInputs == {V0, V1}
LeafInputs == {Str(""), Str("x")}
ErrorInputs == {EmptyObj, Obj1("a", Str("S"))}
TouchedInputs == {EmptyObj, Obj1("a", Bool(TRUE))}

\* this.fields: the registered fields that declare a validate function, in
\* Object.keys order.
FieldKeys == <<PathA>>

\* What one field validator can settle with (a thrown or rejected value is
\* passed on as the result by runSingleFieldLevelValidation).
FieldResults == {Undef, Str("F")}

\* What the schema validator can settle with.
YupError(path, message, inner) == [path |-> path, message |-> message, inner |-> inner]
SchemaOutcomes ==
  { [k |-> "resolved", err |-> YupError(<<>>, "", <<>>)],
    [k |-> "rejected", err |-> YupError(PathA, "S", <<>>)] }

\* What props.validate can do: return undefined, return a value, return a
\* promise that resolves or rejects, or throw.
HandlerOutcomes ==
  { [k |-> "undefined", v |-> Undef],
    [k |-> "sync", v |-> Obj1("a", Str("H"))],
    [k |-> "resolved", v |-> Undef],
    [k |-> "rejected", v |-> Obj1("a", Str("H"))],
    [k |-> "throws", v |-> ErrObj("boom")] }

\* The settlement of the three sources of one whole-form run.
Outcomes ==
  [field : [1..Len(FieldKeys) -> FieldResults],
   schema : SchemaOutcomes,
   handler : HandlerOutcomes]

(***************************************************************************)
(* The validation sources.                                                 *)
(***************************************************************************)
DO_NOT_DELETE == Str("DO_NOT_DELETE_YOU_WILL_BE_FIRED")

\* fieldErrorsList.reduce(...) of runFieldLevelValidations, from index i on.
RECURSIVE FieldReduce(_, _, _, _)
FieldReduce(prev, keys, list, i) ==
  IF i > Len(list) THEN prev
  ELSE LET curr == list[i]
           nxt == IF curr = DO_NOT_DELETE THEN prev
                  ELSE IF Truthy(curr) THEN setIn(prev, keys[i], curr)
                  ELSE prev
       IN FieldReduce(nxt, keys, list, i + 1)

runFieldLevelValidations(keys, results) ==
  LET list == IF Len(keys) > 0 THEN results ELSE <<DO_NOT_DELETE>>
  IN FieldReduce(EmptyObj, keys, list, 1)

\* errors[err.path] in yupToFormErrors: the path string used as one key, which
\* only a single-segment path can match.
ErrorsAtPathKey(errors, path) ==
  IF Len(path) = 1 THEN Prop(errors, path[1]) ELSE Undef

RECURSIVE YupInner(_, _, _)
YupInner(errors, inner, i) ==
  IF i > Len(inner) THEN errors
  ELSE LET err == inner[i]
       IN YupInner(IF ~Truthy(ErrorsAtPathKey(errors, err.path))
                   THEN setIn(errors, err.path, Str(err.message))
                   ELSE errors, inner, i + 1)

yupToFormErrors(yupError) ==
  IF Len(yupError.inner) = 0
  THEN setIn(EmptyObj, yupError.path, Str(yupError.message))
  ELSE YupInner(EmptyObj, yupError.inner, 1)

\* The promise of runValidationSchema.
runValidationSchema(o) ==
  IF o.k = "resolved" THEN EmptyObj ELSE yupToFormErrors(o.err)

\* The promise of runValidateHandler: [ok, v]; ok = FALSE is a rejection with
\* the thrown value.
runValidateHandler(o) ==
  CASE o.k = "undefined" -> [ok |-> TRUE, v |-> EmptyObj]
    [] o.k = "resolved" -> [ok |-> TRUE, v |-> EmptyObj]
    [] o.k = "rejected" -> [ok |-> TRUE, v |-> o.v]
    [] o.k = "sync" -> [ok |-> TRUE, v |-> o.v]
    [] o.k = "throws" -> [ok |-> FALSE, v |-> o.v]

\* Promise.all([...]).then(deepmerge.all) of runValidations.
MergedPromise(out) ==
  LET h == runValidateHandler(out.handler)
  IN IF ~h.ok THEN h
     ELSE [ok |-> TRUE,
           v |-> deepmergeAll3(runFieldLevelValidations(FieldKeys, out.field),
                               runValidationSchema(out.schema), h.v)]


(***************************************************************************)
(* The controller.                                                         *)
(***************************************************************************)
VARIABLES
  values, errors, touched, isSubmitting, isValidating, submitCount, \* this.state
  initialValues,   \* this.initialValues
  didMount,        \* this.didMount
  unmounted,       \* componentWillUnmount has run
  validator,       \* this.validator: the index in runs of the run whose cancel it is;
                   \* 0 if unset or if that run is through its chain (cancel is then void)
  runs,            \* the whole-form validation runs not yet through their promise
                   \* chain, in the order they were started
  fieldRuns,       \* validateField promises in flight
  resetPending,    \* promises returned by onReset that have not settled
  onSubmitCalls,   \* calls of props.onSubmit: how many (n), the values of the last one
  lastStep,        \* what the step that led here was: a resetForm (with its
                   \* argument), the swallowed settlement of a canceled run, a write
                   \* of one error path (validateField, setFieldError), or other
  call             \* the application of a pure function under check (none here)

formState == <<values, errors, touched, isSubmitting, isValidating, submitCount>>
asyncState == <<runs, validator, fieldRuns, resetPending, onSubmitCalls>>
vars == <<values, errors, touched, isSubmitting, isValidating, submitCount,
          initialValues, didMount, unmounted, validator, runs, fieldRuns,
          resetPending, onSubmitCalls, lastStep, call>>

NoResult == Undef
NewRun(vals, cont) ==
  [vals |-> IF cont = "submit" THEN vals ELSE NoResult, cont |-> cont, canceled |-> FALSE, phase |-> "pending",
   res |-> NoResult, reported |-> FALSE]

\* Run r is through its promise chain: nothing refers to it any more.
RemoveRun(rs, r) == [i \in 1..(Len(rs) - 1) |-> IF i < r THEN rs[i] ELSE rs[i + 1]]
ValidatorAfter(v, r) == IF v = r THEN 0 ELSE IF v > r THEN v - 1 ELSE v

StepOf(op, arg) == [op |-> op, arg |-> arg]
Step(op, arg) == lastStep' = StepOf(op, arg) /\ UNCHANGED call
NoCall == [fn |-> "none", args |-> <<>>, out |-> NoResult, done |-> FALSE]

Init ==
  /\ values = PropsInitialValues
  /\ errors = EmptyObj
  /\ touched = EmptyObj
  /\ isSubmitting = FALSE
  /\ isValidating = FALSE
  /\ submitCount = 0
  /\ initialValues = PropsInitialValues
  /\ didMount = FALSE
  /\ unmounted = FALSE
  /\ validator = 0
  /\ runs = <<>>
  /\ fieldRuns = 0
  /\ resetPending = 0
  /\ onSubmitCalls = [n |-> 0, last |-> NoResult]
  /\ lastStep = StepOf("other", NoResult)
  /\ call = NoCall

\* Promises in flight: runs not through their chain, validateField, onReset.
InFlight ==
  Len(runs) + fieldRuns + resetPending

\* A then-callback of a settled run is queued: only promise callbacks can run
\* before it, no event handler.
MicrotaskQueued == \E r \in DOMAIN runs : runs[r].phase = "settled"

\* The rendered form can call the controller.
CanCall == didMount /\ ~MicrotaskQueued

\* cancel() of makeCancelable: sets the run's hasCanceled flag, which is read
\* when the inner promise settles (so it is recorded for pending runs only).
cancel(rs, r) ==
  IF rs[r].phase = "pending" THEN [rs EXCEPT ![r].canceled = TRUE] ELSE rs

\* Variant of CancelValidator that leaves the previous run's handle alone.
CancelValidator_Skip(rs, v) == rs

\* if (this.validator) { this.validator(); }
CancelValidator(rs, v) == IF v # 0 THEN cancel(rs, v) ELSE rs

\* The wrapped promise of makeCancelable(promise), given how the inner promise
\* settled and the hasCanceled flag at that time.
makeCancelable(inner, hasCanceled) ==
  IF hasCanceled THEN [k |-> "dropped", v |-> NoResult]
  ELSE IF inner.ok THEN [k |-> "fulfilled", v |-> inner.v]
  ELSE [k |-> "rejected", v |-> inner.v]

\* runValidations(values) up to the return of its promise; cont names the
\* continuation the caller attaches to that promise.
runValidations(vals, cont) ==
  /\ InFlight < MaxInFlight
  /\ runs' = Append(CancelValidator(runs, validator), NewRun(vals, cont))
  /\ validator' = Len(runs) + 1

NoRun == UNCHANGED <<runs, validator>>

componentDidMount ==
  /\ ~didMount /\ ~unmounted
  /\ didMount' = TRUE
  /\ Step("other", NoResult)
  /\ UNCHANGED <<formState, initialValues, unmounted, asyncState>>

\* Variant of componentWillUnmount that does not cancel the validation.
componentWillUnmount_NoCancel ==
  /\ CanCall
  /\ didMount' = FALSE
  /\ unmounted' = TRUE
  /\ Step("other", NoResult)
  /\ UNCHANGED <<formState, initialValues, runs, validator, fieldRuns,
                 resetPending, onSubmitCalls>>

componentWillUnmount ==
  /\ CanCall
  /\ didMount' = FALSE
  /\ unmounted' = TRUE
  /\ runs' = CancelValidator(runs, validator)
  /\ Step("other", NoResult)
  /\ UNCHANGED <<formState, initialValues, validator, fieldRuns, resetPending,
                 onSubmitCalls>>

setErrors(e) ==
  /\ CanCall
  /\ errors' = e
  /\ Step("other", NoResult)
  /\ UNCHANGED <<values, touched, isSubmitting, isValidating, submitCount,
                 initialValues, didMount, unmounted, asyncState>>

setTouched(t) ==
  /\ CanCall
  /\ touched' = t
  /\ IF validateOnBlur THEN runValidations(values, "none") ELSE NoRun
  /\ Step("other", NoResult)
  /\ UNCHANGED <<values, errors, isSubmitting, isValidating, submitCount,
                 initialValues, didMount, unmounted, fieldRuns, resetPending,
                 onSubmitCalls>>

setValues(v) ==
  /\ CanCall
  /\ values' = v
  /\ IF validateOnChange THEN runValidations(v, "none") ELSE NoRun
  /\ Step("other", NoResult)
  /\ UNCHANGED <<errors, touched, isSubmitting, isValidating, submitCount,
                 initialValues, didMount, unmounted, fieldRuns, resetPending,
                 onSubmitCalls>>

\* setSubmitting(b), called by a submit handler (from the action bag it was
\* given) at any time after it was invoked.
setSubmitting(b) ==
  /\ onSubmitCalls.n > 0
  /\ ~MicrotaskQueued
  /\ isSubmitting' = IF didMount THEN b ELSE isSubmitting
  /\ Step("other", NoResult)
  /\ UNCHANGED <<values, errors, touched, isValidating, submitCount,
                 initialValues, didMount, unmounted, asyncState>>

validateField(field) ==
  /\ CanCall
  /\ InFlight < MaxInFlight
  /\ isValidating' = TRUE
  /\ fieldRuns' = fieldRuns + 1
  /\ Step("other", NoResult)
  /\ UNCHANGED <<values, errors, touched, isSubmitting, submitCount,
                 initialValues, didMount, unmounted, runs, validator,
                 resetPending, onSubmitCalls>>

\* The then-callback of validateField(field), once the validator settled.
validateFieldThen(field, error) ==
  /\ fieldRuns > 0
  /\ fieldRuns' = fieldRuns - 1
  /\ IF didMount
     THEN /\ errors' = setIn(errors, field, error)
          /\ isValidating' = FALSE
     ELSE UNCHANGED <<errors, isValidating>>
  /\ Step(IF didMount THEN "fieldError" ELSE "other", NoResult)
  /\ UNCHANGED <<values, touched, isSubmitting, submitCount, initialValues,
                 didMount, unmounted, runs, validator, resetPending,
                 onSubmitCalls>>

handleChange(field, value) ==
  /\ CanCall
  /\ values' = setIn(values, field, value)
  /\ IF validateOnChange
     THEN runValidations(setIn(values', field, value), "none") ELSE NoRun
  /\ Step("other", NoResult)
  /\ UNCHANGED <<errors, touched, isSubmitting, isValidating, submitCount,
                 initialValues, didMount, unmounted, fieldRuns, resetPending,
                 onSubmitCalls>>

setFieldValue(field, value, shouldValidate) ==
  /\ CanCall
  /\ values' = setIn(values, field, value)
  /\ IF validateOnChange /\ shouldValidate
     THEN runValidations(values', "none") ELSE NoRun
  /\ Step("other", NoResult)
  /\ UNCHANGED <<errors, touched, isSubmitting, isValidating, submitCount,
                 initialValues, didMount, unmounted, fieldRuns, resetPending,
                 onSubmitCalls>>

\* Variants of the submitCount updater: one that counts down, one that loses
\* the increment.
submitCountUpdate_Down(n) == n - 1
submitCountUpdate_Lost(n) == n

\* submitCount: prevState.submitCount + 1
submitCountUpdate(n) == n + 1

\* Submit runs whose continuation has not run yet.
PendingSubmits == Cardinality({r \in DOMAIN runs : runs[r].cont = "submit"})

submitForm ==
  /\ CanCall
  /\ submitCount < MaxSubmits
  /\ onSubmitCalls.n + PendingSubmits < MaxSubmits
  /\ touched' = setNestedObjectValues(values, TRUE)
  /\ isSubmitting' = TRUE
  /\ isValidating' = TRUE
  /\ submitCount' = submitCountUpdate(submitCount)
  /\ runValidations(values, "submit")
  /\ Step("other", NoResult)
  /\ UNCHANGED <<values, errors, initialValues, didMount, unmounted, fieldRuns,
                 resetPending, onSubmitCalls>>

handleBlur(field) ==
  /\ CanCall
  /\ touched' = setIn(touched, field, Bool(TRUE))
  /\ IF validateOnBlur THEN runValidations(values, "none") ELSE NoRun
  /\ Step("other", NoResult)
  /\ UNCHANGED <<values, errors, isSubmitting, isValidating, submitCount,
                 initialValues, didMount, unmounted, fieldRuns, resetPending,
                 onSubmitCalls>>

setFieldTouched(field, t, shouldValidate) ==
  /\ CanCall
  /\ touched' = setIn(touched, field, Bool(t))
  /\ IF validateOnBlur /\ shouldValidate
     THEN runValidations(values, "none") ELSE NoRun
  /\ Step("other", NoResult)
  /\ UNCHANGED <<values, errors, isSubmitting, isValidating, submitCount,
                 initialValues, didMount, unmounted, fieldRuns, resetPending,
                 onSubmitCalls>>

setFieldError(field, message) ==
  /\ CanCall
  /\ errors' = setIn(errors, field, message)
  /\ Step("fieldError", NoResult)
  /\ UNCHANGED <<values, touched, isSubmitting, isValidating, submitCount,
                 initialValues, didMount, unmounted, asyncState>>

\* The assignments of resetForm(nextValues); nextValues is Undef when omitted.
ResetValues(nextValues) ==
  IF Truthy(nextValues) THEN nextValues ELSE PropsInitialValues

\* Variant of resetForm that does not remember the values it resets to.
ResetInitialValues_Keep(v, old) == old

\* this.initialValues = values
ResetInitialValues(v, old) == v

resetFormBody(nextValues) ==
  LET v == ResetValues(nextValues)
  IN /\ initialValues' = ResetInitialValues(v, initialValues)
     /\ isSubmitting' = FALSE
     /\ isValidating' = FALSE
     /\ errors' = EmptyObj
     /\ touched' = EmptyObj
     /\ values' = v
     /\ submitCount' = 0

resetForm(nextValues) ==
  /\ CanCall
  /\ resetFormBody(nextValues)
  /\ Step("reset", nextValues)
  /\ UNCHANGED <<didMount, unmounted, asyncState>>

\* handleReset; kind is what props.onReset is and returns.
handleReset(kind) ==
  /\ CanCall
  /\ IF kind = "promise"
     THEN /\ InFlight < MaxInFlight
          /\ resetPending' = resetPending + 1
          /\ Step("other", NoResult)
          /\ UNCHANGED <<formState, initialValues>>
     ELSE /\ resetFormBody(Undef)
          /\ Step("reset", Undef)
          /\ UNCHANGED resetPending
  /\ UNCHANGED <<didMount, unmounted, runs, validator, fieldRuns,
                 onSubmitCalls>>

\* The promise of onReset settles: .then(this.resetForm) passes on its value.
handleResetThen(ok, v) ==
  /\ resetPending > 0
  /\ resetPending' = resetPending - 1
  /\ IF ok
     THEN resetFormBody(v) /\ Step("reset", v)
     ELSE UNCHANGED <<formState, initialValues>> /\ Step("other", NoResult)
  /\ UNCHANGED <<didMount, unmounted, runs, validator, fieldRuns,
                 onSubmitCalls>>

validateForm(v) ==
  /\ CanCall
  /\ isValidating' = TRUE
  /\ runValidations(v, "validate")
  /\ Step("other", NoResult)
  /\ UNCHANGED <<values, errors, touched, isSubmitting, submitCount,
                 initialValues, didMount, unmounted, fieldRuns, resetPending,
                 onSubmitCalls>>


\* Some source of the run reported an error for the validated values.
SourcesReportError(out) ==
  \/ runFieldLevelValidations(FieldKeys, out.field) # EmptyObj
  \/ runValidationSchema(out.schema) # EmptyObj
  \/ (out.handler.k \in {"rejected", "sync"} /\ out.handler.v # EmptyObj)

\* The ways the sources of one run can settle: how the merged promise settles
\* (p) and whether some source reported an error.
Settlements ==
  { [p |-> MergedPromise(out), reported |-> SourcesReportError(out)] :
      out \in Outcomes }

\* The errors the then-callback of runValidations leaves in this.state.
CommitErrors(prevErrors, d) ==
  IF d.k = "fulfilled" /\ didMount /\ ~isEqual(prevErrors, d.v)
  THEN d.v ELSE prevErrors

\* The sources of run r settle as st: the .then(...).catch(x => x) chain of
\* runValidations runs on the wrapped promise and queues the caller's
\* continuation, if there is one.
runValidationsThen(r, st) ==
  /\ runs[r].phase = "pending"
  /\ LET d == makeCancelable(st.p, runs[r].canceled)
     IN /\ errors' = CommitErrors(errors, d)
        /\ IF d.k = "dropped" \/ runs[r].cont = "none"
           THEN /\ runs' = RemoveRun(runs, r)
                /\ validator' = ValidatorAfter(validator, r)
           ELSE /\ runs' = [runs EXCEPT ![r].phase = "settled", ![r].res = d.v,
                                        ![r].reported = st.reported]
                /\ UNCHANGED validator
        /\ Step(IF d.k = "dropped" THEN "dropped" ELSE "other", NoResult)
  /\ UNCHANGED <<values, touched, isSubmitting, isValidating, submitCount,
                 initialValues, didMount, unmounted, fieldRuns,
                 resetPending, onSubmitCalls>>

\* Variant of executeSubmit that calls the submit handler twice.
executeSubmit_Twice(calls, vals) == [n |-> calls.n + 2, last |-> vals]

\* executeSubmit: props.onSubmit(this.state.values, actions).
executeSubmit(calls, vals) == [n |-> calls.n + 1, last |-> vals]

\* The continuation submitForm attaches to the promise of run r.
submitFormThen(r) ==
  /\ runs[r].phase = "settled"
  /\ runs[r].cont = "submit"
  /\ isValidating' = IF didMount THEN FALSE ELSE isValidating
  /\ IF Keys(runs[r].res) = {}
     THEN \* executeSubmit
          /\ onSubmitCalls' = executeSubmit(onSubmitCalls, values)
          /\ UNCHANGED isSubmitting
     ELSE /\ isSubmitting' = IF didMount THEN FALSE ELSE isSubmitting
          /\ UNCHANGED <<onSubmitCalls>>
  /\ runs' = RemoveRun(runs, r)
  /\ validator' = ValidatorAfter(validator, r)
  /\ Step("other", NoResult)
  /\ UNCHANGED <<values, errors, touched, submitCount, initialValues, didMount,
                 unmounted, fieldRuns, resetPending>>

\* The continuation validateForm attaches to the promise of run r.
validateFormThen(r) ==
  /\ runs[r].phase = "settled"
  /\ runs[r].cont = "validate"
  /\ isValidating' = IF didMount THEN FALSE ELSE isValidating
  /\ runs' = RemoveRun(runs, r)
  /\ validator' = ValidatorAfter(validator, r)
  /\ Step("other", NoResult)
  /\ UNCHANGED <<values, errors, touched, isSubmitting, submitCount,
                 initialValues, didMount, unmounted, fieldRuns,
                 resetPending, onSubmitCalls>>

Next ==
  \/ componentDidMount
  \/ componentWillUnmount
  \/ \E e \in ErrorInputs : setErrors(e)
  \/ \E t \in TouchedInputs : setTouched(t)
  \/ \E v \in ValueInputs : setValues(v)
  \/ setSubmitting(FALSE)
  \/ validateField(PathA)
  \/ \E error \in FieldResults : validateFieldThen(PathA, error)
  \/ \E x \in LeafInputs : handleChange(PathA, x)
  \/ \E x \in LeafInputs, b \in BOOLEAN : setFieldValue(PathA, x, b)
  \/ submitForm
  \/ handleBlur(PathA)
  \/ \E b \in BOOLEAN : setFieldTouched(PathA, TRUE, b)
  \/ \E m \in {Undef, Str("S")} : setFieldError(PathA, m)
  \/ \E nv \in {Undef, V1} : resetForm(nv)
  \/ \E kind \in {"none", "sync", "promise"} : handleReset(kind)
  \/ \E ok \in BOOLEAN, v \in {Undef, V1} : handleResetThen(ok, v)
  \/ \E v \in ValueInputs : validateForm(v)
  \/ \E r \in DOMAIN runs, st \in Settlements : runValidationsThen(r, st)
  \/ \E r \in DOMAIN runs : submitFormThen(r)
  \/ \E r \in DOMAIN runs : validateFormThen(r)

Spec == Init /\ [][Next]_vars


(***************************************************************************)
(* Properties.                                                             *)
(***************************************************************************)
\* The sources of run r settle in this step (its promise chain runs).
Settles(r) ==
  /\ runs[r].phase = "pending"
  /\ \/ runs' = RemoveRun(runs, r)
     \/ (Len(runs') = Len(runs) /\ runs'[r].phase = "settled")

\* The settlement of run r was swallowed: no continuation is left queued.
Swallowed(r) == runs' = RemoveRun(runs, r)

\* A run started by submitForm / any run is appended in this step.
RunStarts == Len(runs') = Len(runs) + 1
SubmitStarts == RunStarts /\ runs'[Len(runs')].cont = "submit"

\* The continuation of submit run r runs in this step.
SubmitContinues(r) ==
  /\ runs[r].phase = "settled" /\ runs[r].cont = "submit"
  /\ runs' = RemoveRun(runs, r)

\* props.onSubmit is called in this step.
OnSubmitCalled == onSubmitCalls'.n = onSubmitCalls.n + 1

\* getFormikComputedProps().dirty
dirty == ~isEqual(initialValues, values)

\* C1: once a newer whole-form run has been started, the settlement of an
\* older run never writes state.errors, whatever the completion order.
C1_StaleRunNeverCommits ==
  [][\A r \in DOMAIN runs : (r # validator /\ Settles(r)) => errors' = errors]_vars

\* C1 witness: an older run settled after a newer one was started and its
\* result was swallowed, while the newer run is still the pending one.
C1_Witness ==
  /\ lastStep.op = "dropped"
  /\ didMount
  /\ validator # 0
  /\ runs[validator].phase = "pending"
  /\ ~runs[validator].canceled

\* C2 (as claimed): when a source reported an error for the values of a submit
\* attempt, the attempt's continuation does not call the submit handler and,
\* while mounted, leaves isSubmitting false.
C2_NoSubmitWhenSourceReportsError ==
  [][\A r \in DOMAIN runs :
       (SubmitContinues(r) /\ runs[r].reported)
         => (~OnSubmitCalled /\ (didMount => ~isSubmitting'))]_vars

\* C3: the settlement of a run that was superseded by a newer run or by
\* teardown changes no field of the form state, queues no continuation of
\* submitForm / validateForm and does not reach the submit handler.
C3_CanceledSettlementHasNoEffect ==
  [][\A r \in DOMAIN runs :
       ((r # validator \/ unmounted) /\ Settles(r))
         => (formState' = formState /\ Swallowed(r)
             /\ onSubmitCalls' = onSubmitCalls)]_vars

\* C3 witness: after teardown the settlement of a canceled run was swallowed
\* and the flags its submitForm had raised are as it left them.
C3_Witness ==
  /\ lastStep.op = "dropped"
  /\ unmounted
  /\ isSubmitting /\ isValidating

\* C4 (as claimed): while mounted, isValidating is true exactly when some run
\* (whole-form and not canceled, or validateField) is in flight.
ValidationInFlight ==
  \/ fieldRuns > 0
  \/ \E r \in DOMAIN runs : ~runs[r].canceled
C4_IsValidatingIffInFlight ==
  didMount => (isValidating <=> ValidationInFlight)

\* C5 (as claimed): isSubmitting is true at the moment the submit handler is
\* called.
C5_SubmittingWhenHandlerCalled ==
  [][OnSubmitCalled => isSubmitting]_vars

\* C6 (as claimed): no step makes submitCount smaller.
C6_SubmitCountNeverDecreases ==
  [][submitCount' >= submitCount]_vars

\* C6 (amended): submitCount never decreases except in a resetForm step, which
\* sets it to 0.
C6_SubmitCountDecreasesOnlyByReset ==
  [][submitCount' < submitCount => (lastStep'.op = "reset" /\ submitCount' = 0)]_vars

\* C6 witness: a resetForm took submitCount back to 0 after a submit attempt
\* had reached the submit handler.
C6_Witness ==
  /\ lastStep.op = "reset"
  /\ submitCount = 0
  /\ onSubmitCalls.n > 0

\* C7: a step is a submitForm call exactly when it raises submitCount, and it
\* raises it by exactly one.
C7_OneIncrementPerSubmit ==
  [][/\ SubmitStarts <=> submitCount' = submitCount + 1
     /\ submitCount' > submitCount => submitCount' = submitCount + 1]_vars

\* C7 witness: two overlapping submitForm calls, the first attempt canceled by
\* the second, counted as two.
C7_Witness ==
  /\ submitCount = 2
  /\ Len(runs) = 2
  /\ runs[1].cont = "submit" /\ runs[1].canceled
  /\ runs[2].cont = "submit" /\ ~runs[2].canceled

\* C8 (as claimed): after teardown no step changes the form state.
C8_NoStateChangeAfterTeardown ==
  [][unmounted => formState' = formState]_vars

MergePaths == {<<"a">>, <<"items", "0">>, <<"items", "1">>, <<"items", "0", "name">>}
MergeLeaves == {Str("x"), Str("y")}

\* Error trees one source can produce: empty, or one message at one path.
TreeInputs ==
  {EmptyObj} \cup {setIn(EmptyObj, p, l) : p \in MergePaths, l \in MergeLeaves}

InitMerge ==
  /\ values = PropsInitialValues
  /\ errors = EmptyObj
  /\ touched = EmptyObj
  /\ isSubmitting = FALSE
  /\ isValidating = FALSE
  /\ submitCount = 0
  /\ initialValues = PropsInitialValues
  /\ didMount = FALSE
  /\ unmounted = FALSE
  /\ validator = 0
  /\ runs = <<>>
  /\ fieldRuns = 0
  /\ resetPending = 0
  /\ onSubmitCalls = [n |-> 0, last |-> NoResult]
  /\ lastStep = StepOf("other", NoResult)
  /\ call \in {[fn |-> "deepmerge.all", args |-> <<f, sch, h>>,
                out |-> NoResult, done |-> FALSE] :
                 f \in TreeInputs, sch \in TreeInputs, h \in TreeInputs}

\* deepmerge.all([fieldErrors, schemaErrors, handlerErrors], { arrayMerge })
MergeApply ==
  /\ call.fn = "deepmerge.all" /\ ~call.done
  /\ call' = [call EXCEPT !.out = deepmergeAll3(call.args[1], call.args[2], call.args[3]),
                          !.done = TRUE]
  /\ UNCHANGED <<formState, initialValues, didMount, unmounted, asyncState, lastStep>>

NextMerge == MergeApply

SpecMerge == InitMerge /\ [][NextMerge]_vars

\* The sources (1 field, 2 schema, 3 handler) with a leaf message at path p.
LeafSources(args, p) == {i \in 1..3 : getIn(args[i], p).t = "s"}
Latest(S) == CHOOSE i \in S : \A j \in S : j <= i

\* C10 (as claimed): at every path where more than one source produced a leaf
\* message, the merged tree holds the message of the latest source in the
\* order field < schema < handler, array indices included.
C10_LaterSourceWinsAtPath ==
  call.done =>
    \A p \in MergePaths :
      Cardinality(LeafSources(call.args, p)) > 1
        => getIn(call.out, p) = getIn(call.args[Latest(LeafSources(call.args, p))], p)

\* C11 (as claimed): when the live run of a mounted form settles and one of its
\* sources reported an error, that error is committed whatever the other
\* sources did (returned, threw or rejected): state.errors is not left empty.
C11_FailedSourceDoesNotAbortMerge ==
  [][\A r \in DOMAIN runs :
       (didMount /\ Settles(r) /\ ~Swallowed(r) /\ runs'[r].reported)
         => errors' # EmptyObj]_vars

\* C14 (as claimed): the commit of a whole-form run leaves in place the error
\* that validateField or setFieldError has just written at a path: it replaces
\* it only with its own error at that path and never removes it.
C14_WholeFormCommitKeepsFieldError ==
  [][\A r \in DOMAIN runs :
       (Settles(r) /\ lastStep.op = "fieldError" /\ ~IsUndef(getIn(errors, PathA)))
         => ~IsUndef(getIn(errors', PathA))]_vars

\* C16: when the validation of a submit attempt yields an empty error tree,
\* the attempt's continuation calls the submit handler exactly once, with the
\* current values, and leaves isValidating false.
C16_ValidSubmitCallsHandlerOnce ==
  [][\A r \in DOMAIN runs :
       (SubmitContinues(r) /\ runs[r].res = EmptyObj)
         => /\ onSubmitCalls'.n = onSubmitCalls.n + 1
            /\ onSubmitCalls'.last = values
            /\ ~isValidating']_vars

\* C16 witness: the one submit attempt reached the submit handler with the
\* current values (changed from the initial ones), nothing is in flight any
\* more and isValidating is false.
C16_Witness ==
  /\ submitCount = 1
  /\ onSubmitCalls = [n |-> 1, last |-> V1]
  /\ values = V1
  /\ errors = EmptyObj
  /\ isSubmitting /\ ~isValidating
  /\ InFlight = 0

\* C17 (as claimed): a handleReset whose handler returns an awaitable changes
\* no state until the awaitable resolves, and the reset done then leaves the
\* state an immediate reset leaves: values are the initial values, whatever
\* the awaitable resolved with.
C17_AwaitedResetIsPlainReset ==
  [][/\ resetPending' = resetPending + 1 => formState' = formState
     /\ (resetPending' = resetPending - 1 /\ lastStep'.op = "reset")
          => /\ values' = PropsInitialValues
             /\ initialValues' = PropsInitialValues
             /\ errors' = EmptyObj /\ touched' = EmptyObj
             /\ submitCount' = 0 /\ ~isSubmitting' /\ ~isValidating']_vars

\* A trigger issued while a submit attempt is validating: a blur that starts a
\* newer whole-form run.
BlurDuringSubmit ==
  /\ \E r \in DOMAIN runs :
       runs[r].cont = "submit" /\ runs[r].phase = "pending" /\ ~runs[r].canceled
  /\ handleBlur(PathA)

\* The sources of a run settle / the continuation of a settled submit run runs.
SourcesSettle == \E r \in DOMAIN runs, st \in Settlements : runValidationsThen(r, st)
SubmitContinuation == \E r \in DOMAIN runs : submitFormThen(r)

\* Submit attempts on a mounted form that is not torn down, each followed by
\* at most one superseding trigger; every validation source eventually
\* settles and a queued continuation eventually runs.
NextSubmit ==
  \/ componentDidMount
  \/ submitForm
  \/ BlurDuringSubmit
  \/ SourcesSettle
  \/ SubmitContinuation

SpecSubmit ==
  /\ Init /\ [][NextSubmit]_vars
  /\ WF_vars(SourcesSettle)
  /\ WF_vars(SubmitContinuation)

\* C18 (as claimed): once submitForm has been called, the form eventually is in
\* a state with isValidating false in which the submit handler has been
\* invoked or isSubmitting is false, also when the attempt's run was
\* superseded by a newer run.
C18_SubmitEventuallyConcludes ==
  (submitCount > 0) ~> (~isValidating /\ (onSubmitCalls.n > 0 \/ ~isSubmitting))

\* C19 (as claimed): the values the submit handler is called with are the
\* values the attempt's validation run was started with.
C19_HandlerGetsValidatedValues ==
  [][\A r \in DOMAIN runs :
       (SubmitContinues(r) /\ OnSubmitCalled)
         => onSubmitCalls'.last = runs[r].vals]_vars

\* C20 (as claimed): when the step after a resetForm is the settlement of a
\* whole-form run that was in flight at the reset, state.errors stays empty.
C20_RunBeforeResetNeverCommits ==
  [][\A r \in DOMAIN runs :
       (Settles(r) /\ lastStep.op = "reset") => errors' = EmptyObj]_vars

\* The whole-form runs that are pending and not canceled.
LiveRuns(rs) == {r \in DOMAIN rs : rs[r].phase = "pending" /\ ~rs[r].canceled}

\* C15: in every reachable state at most one whole-form run is pending and not
\* canceled, and every step that starts a run leaves all earlier runs canceled
\* and installs the new run's handle as this.validator.
C15_AtMostOneLiveRun ==
  /\ [](Cardinality(LiveRuns(runs)) <= 1)
  /\ [][RunStarts =>
          /\ validator' = Len(runs')
          /\ LiveRuns(runs') = {Len(runs')}]_vars

\* C15 witness: two overlapping runs are pending, the earlier one canceled by
\* the start of the later one, whose handle is the installed one.
C15_Witness ==
  /\ Len(runs) = 2
  /\ validator = 2
  /\ runs[1].phase = "pending" /\ runs[1].canceled
  /\ runs[2].phase = "pending" /\ ~runs[2].canceled
  /\ runs[1].cont = "none" /\ runs[2].cont = "none"


(***************************************************************************)
(* The three sources of one run as a function of how they settle.          *)
(***************************************************************************)
\* The controller as constructed, with nothing in flight.
ControllerIdle ==
  /\ values = PropsInitialValues
  /\ errors = EmptyObj
  /\ touched = EmptyObj
  /\ isSubmitting = FALSE
  /\ isValidating = FALSE
  /\ submitCount = 0
  /\ initialValues = PropsInitialValues
  /\ didMount = FALSE
  /\ unmounted = FALSE
  /\ validator = 0
  /\ runs = <<>>
  /\ fieldRuns = 0
  /\ resetPending = 0
  /\ onSubmitCalls = [n |-> 0, last |-> NoResult]
  /\ lastStep = StepOf("other", NoResult)

\* Error trees props.validate can return or reject with.
HandlerTrees == {EmptyObj, Obj1("a", Str("H")), Obj1("b", Str("H"))}

SourcesHandlerOutcomes ==
  {[k |-> "undefined", v |-> Undef], [k |-> "resolved", v |-> Undef],
   [k |-> "throws", v |-> ErrObj("boom")]}
  \cup {[k |-> kk, v |-> t] : kk \in {"sync", "rejected"}, t \in HandlerTrees}

SourcesSchemaOutcomes ==
  SchemaOutcomes \cup {[k |-> "rejected", err |-> YupError(<<"b">>, "S", <<>>)]}

SourcesOutcomes ==
  [field : [1..Len(FieldKeys) -> FieldResults],
   schema : SourcesSchemaOutcomes,
   handler : SourcesHandlerOutcomes]

InitSources ==
  /\ ControllerIdle
  /\ call \in {[fn |-> "Promise.all", args |-> <<out>>,
                out |-> NoResult, done |-> FALSE] : out \in SourcesOutcomes}

\* Promise.all([field, schema, handler]).then(merge) settles.
SourcesApply ==
  /\ call.fn = "Promise.all" /\ ~call.done
  /\ call' = [call EXCEPT !.out = MergedPromise(call.args[1]), !.done = TRUE]
  /\ UNCHANGED <<formState, initialValues, didMount, unmounted, asyncState, lastStep>>

NextSources == SourcesApply

SpecSources == InitSources /\ [][NextSources]_vars

\* C12 (as claimed): when props.validate returns a value synchronously, the
\* merged tree is the merge of the field and schema trees alone: the returned
\* value contributes nothing.
C12_SyncReturnIsDiscarded ==
  (call.done /\ call.args[1].handler.k = "sync") =>
    call.out = [ok |-> TRUE,
                v |-> deepmergeAll3(
                        runFieldLevelValidations(FieldKeys, call.args[1].field),
                        runValidationSchema(call.args[1].schema), EmptyObj)]


(***************************************************************************)
(* yupToFormErrors as a function of the schema validator's error.          *)
(***************************************************************************)
MaxInner == 2         \* entries of yupError.inner

YupPaths == {<<"a">>, <<"b">>, <<"b2", "c">>, <<"items", "0", "name">>}
YupMessages == {"x", "y"}
YupEntries == {YupError(p, m, <<>>) : p \in YupPaths, m \in YupMessages}

\* The errors a schema validator rejects with: a single failure (inner empty)
\* or an aggregate of up to MaxInner entries.
YupErrorInputs ==
  YupEntries \cup
  {YupError(<<>>, "", inner) :
     inner \in UNION {[1..n -> YupEntries] : n \in 1..MaxInner}}

InitYup ==
  /\ ControllerIdle
  /\ call \in {[fn |-> "yupToFormErrors", args |-> <<e>>,
                out |-> NoResult, done |-> FALSE] : e \in YupErrorInputs}

YupApply ==
  /\ call.fn = "yupToFormErrors" /\ ~call.done
  /\ call' = [call EXCEPT !.out = yupToFormErrors(call.args[1]), !.done = TRUE]
  /\ UNCHANGED <<formState, initialValues, didMount, unmounted, asyncState, lastStep>>

NextYup == YupApply

SpecYup == InitYup /\ [][NextYup]_vars

\* The {path, message} entries of a schema error, in source order.
EntriesOf(e) == IF Len(e.inner) = 0 THEN <<e>> ELSE e.inner
FirstAt(es, p) == CHOOSE i \in DOMAIN es :
                    es[i].path = p /\ \A j \in DOMAIN es : es[j].path = p => i <= j

\* C13 (as claimed): at every path some entry names, top-level or nested, the
\* error tree holds the message of the first entry at that path.
C13_FirstMessagePerPathWins ==
  call.done =>
    LET es == EntriesOf(call.args[1])
    IN \A p \in YupPaths :
         (\E i \in DOMAIN es : es[i].path = p)
           => getIn(call.out, p) = Str(es[FirstAt(es, p)].message)


(***************************************************************************)
(* arrayMerge as a function of the two sequences.                          *)
(***************************************************************************)
MaxArr == 2           \* length of the sequences given to arrayMerge

\* Elements of an error sequence: messages, per-element error objects, holes.
ArrElems == {Str("x"), Str("y"), Obj1("name", Str("x")), Obj1("msg", Str("y")), Undef}
ArrInputs == UNION {[1..n -> ArrElems] : n \in 0..MaxArr}

InitArrayMerge ==
  /\ ControllerIdle
  /\ call \in {[fn |-> "arrayMerge", args |-> <<t, src>>,
                out |-> NoResult, done |-> FALSE] :
                 t \in ArrInputs, src \in ArrInputs}

ArrayMergeApply ==
  /\ call.fn = "arrayMerge" /\ ~call.done
  /\ call' = [call EXCEPT !.out = Arr(arrayMerge(call.args[1], call.args[2])),
                          !.done = TRUE]
  /\ UNCHANGED <<formState, initialValues, didMount, unmounted, asyncState, lastStep>>

NextArrayMerge == ArrayMergeApply

SpecArrayMerge == InitArrayMerge /\ [][NextArrayMerge]_vars

\* Index i holds an element of sequence s (it is in range and not a hole).
PresentAt(s, i) == i \in DOMAIN s /\ ~IsUndef(s[i])

\* C21 (as claimed): every element the source holds at an index is found at
\* that index of the result: deep-merged with the target's element when both
\* are mergeable containers, and otherwise as it is (the source wins over a
\* target element, and an index the target does not hold is filled).
C21_SourceElementLandsAtItsIndex ==
  call.done =>
    LET t == call.args[1]
        src == call.args[2]
        out == call.out.v
    IN \A i \in DOMAIN src :
         PresentAt(src, i) =>
           /\ i \in DOMAIN out
           /\ out[i] = IF PresentAt(t, i) /\ isMergeableObject(t[i])
                            /\ isMergeableObject(src[i])
                        THEN deepmerge(t[i], src[i])
                        ELSE src[i]


(***************************************************************************)
(* validateYupSchema: the data handed to the schema validator.             *)
(***************************************************************************)
\* validateData of validateYupSchema: the own keys of values, an empty string
\* replaced by undefined.
validateData(vals) ==
  Obj([k \in DOMAIN vals.v |->
         IF vals.v[k] # Str("") THEN vals.v[k] ELSE Undef])

SchemaLeaves == {Str(""), Str("x"), Str("y")}

\* Values with a top-level leaf, a nested object and an array of leaves.
SchemaValueInputs ==
  {Obj([k \in {"a", "n", "items"} |->
          CASE k = "a" -> l
            [] k = "n" -> Obj1("c", c)
            [] k = "items" -> Arr(it)]) :
     l \in SchemaLeaves, c \in SchemaLeaves,
     it \in UNION {[1..n -> SchemaLeaves] : n \in 0..MaxArr}}

InitValidateYup ==
  /\ ControllerIdle
  /\ call \in {[fn |-> "validateYupSchema", args |-> <<v>>,
                out |-> NoResult, done |-> FALSE] : v \in SchemaValueInputs}

\* validateYupSchema(values, schema) up to the call of schema.validate; out is
\* the data the schema validator is given.
ValidateYupApply ==
  /\ call.fn = "validateYupSchema" /\ ~call.done
  /\ call' = [call EXCEPT !.out = validateData(call.args[1]), !.done = TRUE]
  /\ UNCHANGED <<formState, initialValues, didMount, unmounted, asyncState, lastStep>>

NextValidateYup == ValidateYupApply

SpecValidateYup == InitValidateYup /\ [][NextValidateYup]_vars

\* A tree with every empty-string leaf, at any depth, replaced by undefined.
RECURSIVE EmptyStringsAbsent(_)
EmptyStringsAbsent(x) ==
  CASE IsObj(x) -> Obj([k \in DOMAIN x.v |-> EmptyStringsAbsent(x.v[k])])
    [] IsArr(x) -> Arr([i \in DOMAIN x.v |-> EmptyStringsAbsent(x.v[i])])
    [] x = Str("") -> Undef
    [] OTHER -> x

\* C22 (as claimed): the schema validator is given the values with every
\* empty-string leaf, at any nesting depth, replaced by undefined and every
\* other leaf unchanged, and the values themselves are not modified.
C22_EveryEmptyStringLeafIsAbsent ==
  [][call'.done =>
       /\ call'.out = EmptyStringsAbsent(call.args[1])
       /\ call'.args = call.args]_vars


====
